---- MODULE Spec2Model ----
(***************************************************************************)
(* FrameHashCache (src/app/render/framehashcache.cpp): the time -> hash    *)
(* index of the render cache, its currency check against the job ledger,   *)
(* the timeline-edit hooks and the sample-grid expansion.                  *)
(*                                                                         *)
(* Timestamps are exact rationals in the code.  Here a timestamp is an     *)
(* integer number of ticks of a common denominator, so sums, differences   *)
(* and comparisons are exact, and a timebase is a whole number of ticks.   *)
(***************************************************************************)
EXTENDS Integers, Sequences, FiniteSets, TLC

\* ------------------------------------------------------------------ bounds

\* Largest timestamp a caller passes to the cache (ticks).
MaxTime == 1
\* Largest timebase set through SetTimebase (ticks).
MaxTimebase == 2
\* Largest job_time (sequence number) the scheduler hands out.
MaxJobTime == 2

Times == 0..MaxTime
Timebases == 1..MaxTimebase
JobTimes == 0..MaxJobTime
\* Content hashes (non-empty QByteArrays); EmptyHash is QByteArray().
Hashes == {"hA", "hB"}
EmptyHash == ""

\* Largest key of an index the edit operations start from.
MaxKey == 4
\* Largest end of a range handed to the grid expansion.
MaxGridTime == 5
\* Largest timebase handed to the grid expansion.
MaxGridTimebase == 3
\* Most ranges in a list handed to the grid expansion.
MaxRanges == 2
\* Most samples one expansion is followed for.
MaxSamples == 8

\* Most bytes in a content hash handed to the disk persister.
MaxHashLen == 2
\* The threads that call into one cache instance.
Threads == {"t1", "t2"}
NoThread == "none"

\* ------------------------------------------------------------- time ranges

\* TimeRange: the half-open interval [in, out).
TimeRange(a, b) == [in |-> a, out |-> b]

\* TimeRange::Contains(const rational&): in <= t < out.
Contains(range, t) == range.in <= t /\ t < range.out

\* The unit cells [c, c+1) a range is made of.
Cells(range) == range.in..(range.out - 1)

\* Timeline positions an edit names: a length, a cut point.
Lengths == 0..(MaxTime + 1)
\* Ranges an edit invalidates (possibly empty).
EditRanges == {TimeRange(a, b) : a \in Lengths, b \in Lengths}
\* Ranges a job renders (never empty).
JobRanges == {r \in EditRanges : r.in < r.out}

\* Positions and ranges of the edits applied to a larger index.
EditKeys == 0..MaxKey
EditPoints == 0..(MaxKey + 1)
EditPointRanges == {TimeRange(a, b) : a \in EditPoints, b \in EditPoints}

\* Inputs of the grid expansion: any timebase, lists of disjoint ranges.
GridTimebases == (0 - 1)..MaxGridTimebase
GridRanges ==
  {r \in {TimeRange(a, b) : a \in 0..MaxGridTime, b \in 0..MaxGridTime} : r.in < r.out}
Disjoint(r1, r2) == r1.out <= r2.in \/ r2.out <= r1.in
GridLists ==
  {l \in UNION {[1..n -> GridRanges] : n \in 0..MaxRanges} :
     \A i \in 1..Len(l), j \in 1..Len(l) : i < j => Disjoint(l[i], l[j])}

\* ------------------------------------------------------------------- state

VARIABLES
  time_hash_map_,   \* QMap<rational, QByteArray>: a function on its key set
  timebase_,        \* rational timebase_
  jobs_,            \* the job ledger: a sequence of [range, job_time]
  validated_,       \* the validity ledger: the unit cells marked valid
  last,             \* the call that was made last: arguments, result, signals
  grid_range_list,  \* GetFrameListFromTimeRange: the working copy of its range_list
  grid_times,       \* GetFrameListFromTimeRange: QList<rational> times
  grid_timebase,    \* GetFrameListFromTimeRange: its timebase parameter
  grid_pc,          \* GetFrameListFromTimeRange: "idle", "loop" (at the while), "done"
  grid_input,       \* the range_list as the caller passed it
  save,             \* SaveCacheFrame(hash, data, vparam): where the call stands, its locals
  created_files,    \* DiskManager: the (file name, hash) pairs CreatedFile was called with
  disk,             \* the file system: [dirs, files] below the cache root
  mutex,            \* *lock(): the thread that holds it, or NoThread
  stacks            \* per thread, the frames of its calls into the cache, innermost last

vars == <<time_hash_map_, timebase_, jobs_, validated_, last,
          grid_range_list, grid_times, grid_timebase, grid_pc, grid_input,
          save, created_files, disk, mutex, stacks>>

\* The variables of a running GetFrameListFromTimeRange.
grid == <<grid_range_list, grid_times, grid_timebase, grid_pc, grid_input>>

\* The variables of the disk persister.
persister == <<save, created_files, disk>>

\* The lock and the calls in progress on each thread.
threads == <<mutex, stacks>>

\* --------------------------------------------------------- map primitives

\* QMap::value(key): the stored value, or a default-constructed one.
MapValue(m, k) == IF k \in DOMAIN m THEN m[k] ELSE EmptyHash

\* QMap::insert(key, value): adds the key or replaces its value.
MapInsert(m, k, v) == [x \in (DOMAIN m) \cup {k} |-> IF x = k THEN v ELSE m[x]]

\* QMap::erase(iterator): the map without that key.
MapErase(m, k) == [x \in (DOMAIN m) \ {k} |-> m[x]]

EmptyMap == [x \in {} |-> EmptyHash]

\* Every index over the keys 0..MaxKey.
EditMaps == UNION {[K -> Hashes] : K \in SUBSET EditKeys}
\* The indexes with keys {1,2,5,6,7}.
ExampleMaps == [{1, 2, 5, 6, 7} -> Hashes]

\* The keys of a QMap in iteration (ascending) order.
RECURSIVE SortedKeys(_)
SortedKeys(S) ==
  IF S = {} THEN <<>>
  ELSE LET k == CHOOSE x \in S : \A y \in S : x <= y
       IN  <<k>> \o SortedKeys(S \ {k})

\* ------------------------------------------------------- validity ledger

\* TimeBasedCache::NoLockValidate(range): the range becomes valid.
NoLockValidate(v, range) == v \cup Cells(range)

\* TimeBasedCache::NoLockInvalidate(range): the range becomes invalid.
NoLockInvalidate(v, range) == v \ Cells(range)

\* ---------------------------------------------------------- job ledger

Job(range, job_time) == [range |-> range, job_time |-> job_time]

\* The scheduler appends a job; job times increase along the ledger.
AddJob(range, job_time) ==
  /\ \A i \in 1..Len(jobs_) : jobs_[i].job_time < job_time
  /\ jobs_' = Append(jobs_, Job(range, job_time))
  /\ last' = [op |-> "AddJob"]
  /\ UNCHANGED <<time_hash_map_, timebase_, validated_>>
  /\ UNCHANGED <<grid, persister, threads>>

\* The scheduler retires the job at position i.
RemoveJob(i) ==
  /\ i \in 1..Len(jobs_)
  /\ jobs_' = [j \in 1..(Len(jobs_) - 1) |-> IF j < i THEN jobs_[j] ELSE jobs_[j + 1]]
  /\ last' = [op |-> "RemoveJob"]
  /\ UNCHANGED <<time_hash_map_, timebase_, validated_>>
  /\ UNCHANGED <<grid, persister, threads>>

\* ------------------------------------------------------------- GetHash

GetHash(time) ==
  /\ last' = [op |-> "GetHash", time |-> time, ret |-> MapValue(time_hash_map_, time)]
  /\ UNCHANGED <<time_hash_map_, timebase_, jobs_, validated_>>
  /\ UNCHANGED <<grid, persister, threads>>

\* ------------------------------------------------------------- SetHash

\* Variants of the scan with a slip in its condition.
RECURSIVE IsCurrentFromStrict(_, _, _, _)
IsCurrentFromStrict(jobs, i, time, job_time) ==
  IF i < 1 THEN FALSE
  ELSE IF Contains(jobs[i].range, time) /\ job_time > jobs[i].job_time THEN TRUE
  ELSE IsCurrentFromStrict(jobs, i - 1, time, job_time)

RECURSIVE IsCurrentFromAnyRange(_, _, _, _)
IsCurrentFromAnyRange(jobs, i, time, job_time) ==
  IF i < 1 THEN FALSE
  ELSE IF job_time >= jobs[i].job_time THEN TRUE
  ELSE IsCurrentFromAnyRange(jobs, i - 1, time, job_time)

RECURSIVE IsCurrentFromNewestOnly(_, _, _, _)
IsCurrentFromNewestOnly(jobs, i, time, job_time) ==
  IF i < 1 THEN FALSE
  ELSE IF Contains(jobs[i].range, time) THEN job_time >= jobs[i].job_time
  ELSE IsCurrentFromNewestOnly(jobs, i - 1, time, job_time)

\* The loop of SetHash: i runs from jobs_.size()-1 down to 0 (here Len..1),
\* and stops at the first job that contains the time and is not newer than
\* the completion.
RECURSIVE IsCurrentFrom(_, _, _, _)
IsCurrentFrom(jobs, i, time, job_time) ==
  IF i < 1 THEN FALSE
  ELSE IF Contains(jobs[i].range, time) /\ job_time >= jobs[i].job_time THEN TRUE
  ELSE IsCurrentFrom(jobs, i - 1, time, job_time)

Validated(range) == [signal |-> "Validated", range |-> range]
Invalidated(range) == [signal |-> "Invalidated", range |-> range]

SetHash(time, hash, job_time) ==
  LET is_current == IsCurrentFrom(jobs_, Len(jobs_), time, job_time)
      validated_range == TimeRange(time, time + timebase_)
  IN  /\ IF ~is_current
         THEN /\ UNCHANGED <<time_hash_map_, validated_>>
              /\ last' = [op |-> "SetHash", time |-> time, hash |-> hash,
                          job_time |-> job_time, is_current |-> FALSE,
                          emitted |-> <<>>, before |-> time_hash_map_,
                          valid_before |-> validated_]
         ELSE /\ time_hash_map_' = MapInsert(time_hash_map_, time, hash)
              /\ validated_' = NoLockValidate(validated_, validated_range)
              /\ last' = [op |-> "SetHash", time |-> time, hash |-> hash,
                          job_time |-> job_time, is_current |-> TRUE,
                          emitted |-> <<Validated(validated_range)>>,
                          before |-> time_hash_map_, valid_before |-> validated_]
      /\ UNCHANGED <<timebase_, jobs_>>
      /\ UNCHANGED <<grid, persister, threads>>

\* ---------------------------------------------------------- SetTimebase

SetTimebase(tb) ==
  /\ timebase_' = tb
  /\ last' = [op |-> "SetTimebase", tb |-> tb]
  /\ UNCHANGED <<time_hash_map_, jobs_, validated_>>
  /\ UNCHANGED <<grid, persister, threads>>

\* ---------------------------------------------------- GetFramesWithHash

\* The loop of GetFramesWithHash over the map in key order.
RECURSIVE FramesWithHashLoop(_, _, _, _)
FramesWithHashLoop(m, ks, hash, times) ==
  IF ks = <<>> THEN times
  ELSE IF m[Head(ks)] = hash
       THEN FramesWithHashLoop(m, Tail(ks), hash, Append(times, Head(ks)))
       ELSE FramesWithHashLoop(m, Tail(ks), hash, times)

FramesWithHash(m, hash) == FramesWithHashLoop(m, SortedKeys(DOMAIN m), hash, <<>>)

GetFramesWithHash(hash) ==
  /\ last' = [op |-> "GetFramesWithHash", hash |-> hash,
              ret |-> FramesWithHash(time_hash_map_, hash)]
  /\ UNCHANGED <<time_hash_map_, timebase_, jobs_, validated_>>
  /\ UNCHANGED <<grid, persister, threads>>

\* --------------------------------------------------- TakeFramesWithHash

\* Variant: the iterator is advanced once more after an erase.
RECURSIVE TakeLoopSkipping(_, _, _, _)
TakeLoopSkipping(m, ks, hash, times) ==
  IF ks = <<>> THEN [map |-> m, times |-> times]
  ELSE IF m[Head(ks)] = hash
       THEN TakeLoopSkipping(MapErase(m, Head(ks)),
                             IF Len(ks) > 1 THEN Tail(Tail(ks)) ELSE <<>>,
                             hash, Append(times, Head(ks)))
       ELSE TakeLoopSkipping(m, Tail(ks), hash, times)

\* The while loop of TakeFramesWithHash: erase each entry whose value is the
\* hash and append its key to times.
RECURSIVE TakeLoop(_, _, _, _)
TakeLoop(m, ks, hash, times) ==
  IF ks = <<>> THEN [map |-> m, times |-> times]
  ELSE IF m[Head(ks)] = hash
       THEN TakeLoop(MapErase(m, Head(ks)), Tail(ks), hash, Append(times, Head(ks)))
       ELSE TakeLoop(m, Tail(ks), hash, times)

\* foreach r in times: NoLockInvalidate(TimeRange(r, r + timebase_)).
RECURSIVE InvalidateEach(_, _, _)
InvalidateEach(v, times, tb) ==
  IF times = <<>> THEN v
  ELSE InvalidateEach(NoLockInvalidate(v, TimeRange(Head(times), Head(times) + tb)),
                      Tail(times), tb)

\* foreach r in times: emit Invalidated(TimeRange(r, r + timebase_)).
EmitInvalidated(times, tb) ==
  [i \in 1..Len(times) |-> Invalidated(TimeRange(times[i], times[i] + tb))]

TakeFramesWithHash(hash) ==
  LET taken == TakeLoop(time_hash_map_, SortedKeys(DOMAIN time_hash_map_), hash, <<>>)
  IN  /\ time_hash_map_' = taken.map
      /\ validated_' = InvalidateEach(validated_, taken.times, timebase_)
      /\ last' = [op |-> "TakeFramesWithHash", hash |-> hash, ret |-> taken.times,
                  emitted |-> EmitInvalidated(taken.times, timebase_),
                  before |-> time_hash_map_, valid_before |-> validated_]
      /\ UNCHANGED <<timebase_, jobs_>>
      /\ UNCHANGED <<grid, persister, threads>>

\* --------------------------------------------------- LengthChangedEvent

\* Variant: the key at newlen itself is kept.
RECURSIVE LengthLoopAfter(_, _, _)
LengthLoopAfter(m, ks, newlen) ==
  IF ks = <<>> THEN m
  ELSE IF Head(ks) > newlen
       THEN LengthLoopAfter(MapErase(m, Head(ks)), Tail(ks), newlen)
       ELSE LengthLoopAfter(m, Tail(ks), newlen)

\* Variant: the loop stops after its first erase.
RECURSIVE LengthLoopOnce(_, _, _)
LengthLoopOnce(m, ks, newlen) ==
  IF ks = <<>> THEN m
  ELSE IF Head(ks) >= newlen
       THEN MapErase(m, Head(ks))
       ELSE LengthLoopOnce(m, Tail(ks), newlen)

\* The erase loop of LengthChangedEvent: every key >= newlen goes.
RECURSIVE LengthLoop(_, _, _)
LengthLoop(m, ks, newlen) ==
  IF ks = <<>> THEN m
  ELSE IF Head(ks) >= newlen
       THEN LengthLoop(MapErase(m, Head(ks)), Tail(ks), newlen)
       ELSE LengthLoop(m, Tail(ks), newlen)

LengthChanged(m, old, newlen) ==
  IF newlen < old THEN LengthLoop(m, SortedKeys(DOMAIN m), newlen) ELSE m

LengthChangedEvent(old, newlen) ==
  /\ time_hash_map_' = LengthChanged(time_hash_map_, old, newlen)
  /\ last' = [op |-> "LengthChangedEvent", old |-> old, newlen |-> newlen,
              emitted |-> <<>>, before |-> time_hash_map_]
  /\ UNCHANGED <<timebase_, jobs_, validated_>>
  /\ UNCHANGED <<grid, persister, threads>>

\* ------------------------------------------------------ InvalidateEvent

\* Variant: the range is taken as closed, [r.in, r.out].
RECURSIVE InvalidateLoopClosed(_, _, _)
InvalidateLoopClosed(m, ks, r) ==
  IF ks = <<>> THEN m
  ELSE IF Head(ks) >= r.in /\ Head(ks) <= r.out
       THEN InvalidateLoopClosed(MapErase(m, Head(ks)), Tail(ks), r)
       ELSE InvalidateLoopClosed(m, Tail(ks), r)

\* The erase loop of InvalidateEvent: every key in [r.in, r.out) goes.
RECURSIVE InvalidateLoop(_, _, _)
InvalidateLoop(m, ks, r) ==
  IF ks = <<>> THEN m
  ELSE IF Head(ks) >= r.in /\ Head(ks) < r.out
       THEN InvalidateLoop(MapErase(m, Head(ks)), Tail(ks), r)
       ELSE InvalidateLoop(m, Tail(ks), r)

Invalidate(m, r) == InvalidateLoop(m, SortedKeys(DOMAIN m), r)

InvalidateEvent(r) ==
  /\ time_hash_map_' = Invalidate(time_hash_map_, r)
  /\ last' = [op |-> "InvalidateEvent", r |-> r, emitted |-> <<>>,
              before |-> time_hash_map_]
  /\ UNCHANGED <<timebase_, jobs_, validated_>>
  /\ UNCHANGED <<grid, persister, threads>>

\* ----------------------------------------------------------- ShiftEvent

HashTimePair(time, hash) == [time |-> time, hash |-> hash]

\* Variant: the collapsed region [to, from) is not discarded.
RECURSIVE ShiftLoopNoDiscard(_, _, _, _, _)
ShiftLoopNoDiscard(m, ks, from, to, shifted_times) ==
  IF ks = <<>> THEN [map |-> m, shifted_times |-> shifted_times]
  ELSE LET k == Head(ks)
       IN  IF k >= from
           THEN ShiftLoopNoDiscard(MapErase(m, k), Tail(ks), from, to,
                                   Append(shifted_times, HashTimePair(k + (to - from), m[k])))
           ELSE ShiftLoopNoDiscard(m, Tail(ks), from, to, shifted_times)

\* The while loop of ShiftEvent: entries in [to, from) are discarded when the
\* shift is backward, entries at or after from are erased and collected with
\* their destination key, the others are left.
RECURSIVE ShiftLoop(_, _, _, _, _)
ShiftLoop(m, ks, from, to, shifted_times) ==
  LET diff == to - from
      diff_is_negative == diff < 0
  IN  IF ks = <<>> THEN [map |-> m, shifted_times |-> shifted_times]
      ELSE LET k == Head(ks)
           IN  IF diff_is_negative /\ k >= to /\ k < from
               THEN ShiftLoop(MapErase(m, k), Tail(ks), from, to, shifted_times)
               ELSE IF k >= from
               THEN ShiftLoop(MapErase(m, k), Tail(ks), from, to,
                              Append(shifted_times, HashTimePair(k + diff, m[k])))
               ELSE ShiftLoop(m, Tail(ks), from, to, shifted_times)

\* foreach p in shifted_times: time_hash_map_.insert(p.time, p.hash).
RECURSIVE ShiftInsert(_, _)
ShiftInsert(m, shifted_times) ==
  IF shifted_times = <<>> THEN m
  ELSE ShiftInsert(MapInsert(m, Head(shifted_times).time, Head(shifted_times).hash),
                   Tail(shifted_times))

Shift(m, from, to) ==
  LET scanned == ShiftLoop(m, SortedKeys(DOMAIN m), from, to, <<>>)
  IN  ShiftInsert(scanned.map, scanned.shifted_times)

ShiftEvent(from, to) ==
  /\ time_hash_map_' = Shift(time_hash_map_, from, to)
  /\ last' = [op |-> "ShiftEvent", from |-> from, to |-> to, emitted |-> <<>>,
              before |-> time_hash_map_]
  /\ UNCHANGED <<timebase_, jobs_, validated_>>
  /\ UNCHANGED <<grid, persister, threads>>

\* ------------------------------------------- GetFrameListFromTimeRange

Abs(x) == IF x < 0 THEN 0 - x ELSE x

\* Timecode::snap_time_to_timebase(time, timebase): the instant of the
\* grid_timebase's grid {k * grid_timebase} nearest to time.  Midway between two
\* instants either may be the nearest; a zero timebase has one instant, 0.
snap_time_to_timebase(time, tb) ==
  IF tb = 0 THEN {0}
  ELSE LET a == Abs(tb)
           below == (time \div a) * a
       IN  IF 2 * (time - below) < a THEN {below}
           ELSE IF 2 * (time - below) > a THEN {below + a}
           ELSE {below, below + a}

\* What is left of range r once [remove.in, remove.out) is taken out of it.
RangeMinus(r, remove) ==
  IF remove.in >= remove.out \/ remove.out <= r.in \/ remove.in >= r.out
  THEN <<r>>
  ELSE (IF r.in < remove.in THEN <<TimeRange(r.in, remove.in)>> ELSE <<>>)
       \o (IF remove.out < r.out THEN <<TimeRange(remove.out, r.out)>> ELSE <<>>)

\* TimeRangeList::RemoveTimeRange(remove): remove is subtracted from every
\* range of the list; a range may shrink, vanish or split.
RECURSIVE RemoveTimeRange(_, _)
RemoveTimeRange(list, remove) ==
  IF list = <<>> THEN <<>>
  ELSE RangeMinus(Head(list), remove) \o RemoveTimeRange(Tail(list), remove)

\* Variant: the snapped value is used as the sample even when it lies after
\* the range's start.
SnapBranchNoStepBack(time, snapped, tb) ==
  [snapped |-> snapped, next |-> snapped + tb]

\* The if/else of the loop body: the sample that is appended and the end
\* of the range that is removed, from range.in() and its snapped value.
SnapBranch(time, snapped, tb) ==
  IF snapped > time
  THEN [snapped |-> snapped - tb, next |-> snapped]
  ELSE [snapped |-> snapped, next |-> snapped + tb]

\* Entry of the static GetFrameListFromTimeRange(range_list, timebase).
GetFrameListFromTimeRange(list, tb) ==
  /\ grid_pc = "idle"
  /\ grid_range_list' = list
  /\ grid_input' = list
  /\ grid_timebase' = tb
  /\ grid_times' = <<>>
  /\ grid_pc' = "loop"
  /\ last' = [op |-> "GetFrameListFromTimeRange"]
  /\ UNCHANGED <<time_hash_map_, timebase_, jobs_, validated_>>
  /\ UNCHANGED <<persister, threads>>

\* The member overload: the same with the cache's timebase_.
GetFrameListFromTimeRangeMember(list) ==
  GetFrameListFromTimeRange(list, timebase_)

\* One pass of the while loop (range_list is not empty).
GridLoop ==
  /\ grid_pc = "loop"
  /\ grid_range_list # <<>>
  /\ Len(grid_times) < MaxSamples
  /\ LET time == grid_range_list[1].in
     IN  \E snapped \in snap_time_to_timebase(time, grid_timebase) :
           LET b == SnapBranch(time, snapped, grid_timebase)
           IN  /\ grid_times' = Append(grid_times, b.snapped)
               /\ grid_range_list' = RemoveTimeRange(grid_range_list, TimeRange(b.snapped, b.next))
  /\ UNCHANGED <<grid_timebase, grid_pc, grid_input, last>>
  /\ UNCHANGED <<time_hash_map_, timebase_, jobs_, validated_>>
  /\ UNCHANGED <<persister, threads>>

\* The loop condition fails: return times.
GridReturn ==
  /\ grid_pc = "loop"
  /\ grid_range_list = <<>>
  /\ grid_pc' = "done"
  /\ last' = [op |-> "GetFrameListFromTimeRange", ret |-> grid_times]
  /\ UNCHANGED <<grid_range_list, grid_times, grid_timebase, grid_input>>
  /\ UNCHANGED <<time_hash_map_, timebase_, jobs_, validated_>>
  /\ UNCHANGED <<persister, threads>>

\* ------------------------------------------------------- disk persister

\* PixelFormat::Format, as the switch of SaveCacheFrame lists it.
IntegerFormats == {"PIX_FMT_RGB8", "PIX_FMT_RGBA8", "PIX_FMT_RGB16U", "PIX_FMT_RGBA16U"}
FloatFormats == {"PIX_FMT_RGB16F", "PIX_FMT_RGBA16F", "PIX_FMT_RGB32F", "PIX_FMT_RGBA32F"}
InvalidFormats == {"PIX_FMT_INVALID", "PIX_FMT_COUNT"}
PixelFormats == IntegerFormats \cup FloatFormats \cup InvalidFormats

\* PixelFormat::FormatIsFloat(f): the half and full float formats.
FormatIsFloat(f) == f \in FloatFormats

\* A QString is a sequence of one-character strings.
GetFormatExtension(f) ==
  IF FormatIsFloat(f) THEN <<".", "e", "x", "r">> ELSE <<".", "j", "p", "g">>

\* Byte values of the hashes handed to the persister, and the hashes.
HashBytes == {1, 16}
ByteArrays == UNION {[1..n -> HashBytes] : n \in 1..MaxHashLen}

HexDigits == <<"0", "1", "2", "3", "4", "5", "6", "7",
               "8", "9", "a", "b", "c", "d", "e", "f">>

\* QByteArray::toHex(): two lower-case hex digits per byte.
RECURSIVE toHex(_)
toHex(bytes) ==
  IF bytes = <<>> THEN <<>>
  ELSE <<HexDigits[(Head(bytes) \div 16) + 1], HexDigits[(Head(bytes) % 16) + 1]>>
       \o toHex(Tail(bytes))

\* QByteArray::left(1) and QByteArray::mid(1).
left1(bytes) == IF bytes = <<>> THEN <<>> ELSE <<Head(bytes)>>
mid1(bytes) == IF bytes = <<>> THEN <<>> ELSE Tail(bytes)

\* FileFunctions::GetMediaCacheLocation(): the cache root.
GetMediaCacheLocation == <<"/", "m", "c">>

\* QDir(dir).filePath(name).
filePath(dir, name) == dir \o <<"/">> \o name

\* The QDir cache_dir of CachePathName: the shard of the hash's first byte.
cache_dir(hash) == filePath(GetMediaCacheLocation, toHex(left1(hash)))

\* Variant: the file name is built from the whole hash but its last byte.
CachePathNameDropLast(hash, pix_fmt) ==
  filePath(cache_dir(hash),
           toHex(SubSeq(hash, 1, Len(hash) - 1)) \o GetFormatExtension(pix_fmt))

\* CachePathName(hash, pix_fmt): the file name it returns.
CachePathName(hash, pix_fmt) ==
  LET ext == GetFormatExtension(pix_fmt)
      filename == toHex(mid1(hash)) \o ext
  IN  filePath(cache_dir(hash), filename)

\* The file system and the registry before anything was cached.
EmptyDisk == [dirs |-> {}, files |-> {}]

\* A file of the cache: whether the encoder wrote the whole image into it.
File(name, complete) == [name |-> name, complete |-> complete]

\* (Re)creating a file replaces what was there under that name.
WriteFile(d, name, complete) ==
  [d EXCEPT !.files = {f \in @ : f.name # name} \cup {File(name, complete)}]

\* SaveCacheFrame(hash, data, vparam), line 195: CachePathName makes the
\* shard directory and gives the file name.
SaveCacheFrame(hash, format) ==
  /\ save.pc = "idle"
  /\ disk' = [disk EXCEPT !.dirs = @ \cup {cache_dir(hash)}]
  /\ save' = [pc |-> "write", hash |-> hash, format |-> format,
              fn |-> CachePathName(hash, format),
              registered_before |-> Len(created_files)]
  /\ UNCHANGED created_files
  /\ UNCHANGED <<time_hash_map_, timebase_, jobs_, validated_, last>>
  /\ UNCHANGED <<grid, threads>>

\* SaveCacheFrame(filename, data, vparam) for an integer format: the encoder
\* may not be created, may not open the file, may not write the image; the
\* call returns true once the encoder was created (lines 303-324).
SaveInteger ==
  /\ save.pc = "write"
  /\ save.format \in IntegerFormats
  /\ \E created \in BOOLEAN, opened \in BOOLEAN, written \in BOOLEAN :
       /\ created \/ (~opened /\ ~written)
       /\ opened \/ ~written
       /\ disk' = IF opened THEN WriteFile(disk, save.fn, written) ELSE disk
       /\ save' = [pc |-> "saved", hash |-> save.hash, format |-> save.format,
                   fn |-> save.fn, registered_before |-> save.registered_before,
                   created |-> created, opened |-> opened, written |-> written,
                   ret |-> created,
                   threw |-> FALSE]
  /\ UNCHANGED created_files
  /\ UNCHANGED <<time_hash_map_, timebase_, jobs_, validated_, last>>
  /\ UNCHANGED <<grid, threads>>

\* SaveCacheFrame(filename, data, vparam) for a float format: the EXR writer
\* either writes the file or throws; nothing catches what it throws.
SaveFloat ==
  /\ save.pc = "write"
  /\ save.format \in FloatFormats
  /\ \E written \in BOOLEAN :
       /\ disk' = WriteFile(disk, save.fn, written)
       /\ save' = [pc |-> IF written THEN "saved" ELSE "done",
                   hash |-> save.hash, format |-> save.format,
                   fn |-> save.fn, registered_before |-> save.registered_before,
                   created |-> written, opened |-> written, written |-> written,
                   ret |-> written, threw |-> ~written]
  /\ UNCHANGED created_files
  /\ UNCHANGED <<time_hash_map_, timebase_, jobs_, validated_, last>>
  /\ UNCHANGED <<grid, threads>>

\* SaveCacheFrame(filename, data, vparam) for PIX_FMT_INVALID and
\* PIX_FMT_COUNT: logs and returns false.
SaveInvalid ==
  /\ save.pc = "write"
  /\ save.format \in InvalidFormats
  /\ save' = [pc |-> "saved", hash |-> save.hash, format |-> save.format,
              fn |-> save.fn, registered_before |-> save.registered_before,
              created |-> FALSE, opened |-> FALSE, written |-> FALSE,
              ret |-> FALSE, threw |-> FALSE]
  /\ UNCHANGED <<created_files, disk>>
  /\ UNCHANGED <<time_hash_map_, timebase_, jobs_, validated_, last>>
  /\ UNCHANGED <<grid, threads>>

\* Lines 197-200: DiskManager::CreatedFile(fn, hash) if the write returned true.
CreatedFile(registry, ret, fn, hash) ==
  IF ret THEN Append(registry, <<fn, hash>>) ELSE registry

SaveCacheFrameReturn ==
  /\ save.pc = "saved"
  /\ created_files' = CreatedFile(created_files, save.ret, save.fn, save.hash)
  /\ save' = [save EXCEPT !.pc = "done"]
  /\ UNCHANGED disk
  /\ UNCHANGED <<time_hash_map_, timebase_, jobs_, validated_, last>>
  /\ UNCHANGED <<grid, threads>>

\* ------------------------------------------- the calls, thread by thread
\* The same functions step by step: a thread's call is a frame on its stack,
\* [fn, at, locker, ...]; "at" is where the call stands and "locker" whether
\* its QMutexLocker holds the lock.  A signal runs its slot in the emitting
\* thread before emit returns, and the slot may call back into the cache.

Idle(t) == stacks[t] = <<>>
Top(t) == stacks[t][Len(stacks[t])]

\* What every step of a call leaves alone.
NotTheCache == <<last, grid, persister>>

\* A call: its frame goes on the thread's stack.
Push(t, frame) == [stacks EXCEPT ![t] = Append(@, frame)]

\* The innermost frame is replaced.
SetTop(t, frame) == [stacks EXCEPT ![t] = [@ EXCEPT ![Len(@)] = frame]]

\* The innermost call returns: its frame goes.
Return(t) == [stacks EXCEPT ![t] = SubSeq(@, 1, Len(@) - 1)]

\* QMutexLocker locker(lock()): the thread waits until nobody holds the
\* lock, and then holds it.  The lock is exclusive: the thread that holds it
\* waits like any other.
Lock(t) ==
  /\ ~Idle(t)
  /\ Top(t).at = "lock"
  /\ mutex = NoThread
  /\ mutex' = t
  /\ stacks' = SetTop(t, [Top(t) EXCEPT !.at = "locked", !.locker = TRUE])
  /\ UNCHANGED <<time_hash_map_, timebase_, jobs_, validated_>>
  /\ UNCHANGED NotTheCache

\* locker.unlock() (lines 70 and 121).
LockerUnlock(m, t) == IF m = t THEN NoThread ELSE m

\* ~QMutexLocker at the end of a call: unlocks if the locker holds the lock.
LockerDestroyed(m, frame) == IF frame.locker THEN NoThread ELSE m

\* GetHash, lines 37-42.
GetHashFrame(time) == [fn |-> "GetHash", at |-> "lock", locker |-> FALSE, time |-> time]

GetHashCall(t, time) ==
  /\ Idle(t)
  /\ stacks' = Push(t, GetHashFrame(time))
  /\ UNCHANGED <<time_hash_map_, timebase_, jobs_, validated_, mutex>>
  /\ UNCHANGED NotTheCache

GetHashLocked(t) ==
  /\ ~Idle(t)
  /\ Top(t).fn = "GetHash" /\ Top(t).at = "locked"
  /\ mutex' = LockerDestroyed(mutex, Top(t))
  /\ stacks' = Return(t)
  /\ UNCHANGED <<time_hash_map_, timebase_, jobs_, validated_>>
  /\ UNCHANGED NotTheCache

\* The slot an observer connects to Validated and Invalidated: it calls a
\* locking function of the same cache, GetHash at the start of the range or
\* GetInvalidatedFrames.
SlotCalls(range) ==
  {GetHashFrame(range.in),
   [fn |-> "GetInvalidatedFrames", at |-> "lock", locker |-> FALSE]}

\* SetHash, lines 44-73.
SetHashCall(t, time, hash, job_time) ==
  /\ Idle(t)
  /\ stacks' = Push(t, [fn |-> "SetHash", at |-> "lock", locker |-> FALSE,
                        time |-> time, hash |-> hash, job_time |-> job_time,
                        validated_range |-> TimeRange(time, time)])
  /\ UNCHANGED <<time_hash_map_, timebase_, jobs_, validated_, mutex>>
  /\ UNCHANGED NotTheCache

\* Lines 48-70: the scan; a completion that is not current returns, a current
\* one is inserted, its range validated and the lock released.
SetHashLocked(t) ==
  /\ ~Idle(t)
  /\ Top(t).fn = "SetHash" /\ Top(t).at = "locked"
  /\ LET f == Top(t)
         is_current == IsCurrentFrom(jobs_, Len(jobs_), f.time, f.job_time)
         validated_range == TimeRange(f.time, f.time + timebase_)
     IN  IF ~is_current
         THEN /\ mutex' = LockerDestroyed(mutex, f)
              /\ stacks' = Return(t)
              /\ UNCHANGED <<time_hash_map_, validated_>>
         ELSE /\ time_hash_map_' = MapInsert(time_hash_map_, f.time, f.hash)
              /\ validated_' = NoLockValidate(validated_, validated_range)
              /\ mutex' = LockerUnlock(mutex, t)
              /\ stacks' = SetTop(t, [f EXCEPT !.at = "emit",
                                               !.locker = (mutex' = t),
                                               !.validated_range = validated_range])
  /\ UNCHANGED <<timebase_, jobs_>>
  /\ UNCHANGED NotTheCache

\* Line 72: emit Validated(validated_range); the slot makes its call.
SetHashEmit(t) ==
  /\ ~Idle(t)
  /\ Top(t).fn = "SetHash" /\ Top(t).at = "emit"
  /\ \E call \in SlotCalls(Top(t).validated_range) :
       stacks' = [stacks EXCEPT ![t] =
                    Append([@ EXCEPT ![Len(@)].at = "return"], call)]
  /\ UNCHANGED <<time_hash_map_, timebase_, jobs_, validated_, mutex>>
  /\ UNCHANGED NotTheCache

\* The end of a function whose last call has returned.
ReturnFromCall(t) ==
  /\ ~Idle(t)
  /\ Top(t).at = "return"
  /\ mutex' = LockerDestroyed(mutex, Top(t))
  /\ stacks' = Return(t)
  /\ UNCHANGED <<time_hash_map_, timebase_, jobs_, validated_>>
  /\ UNCHANGED NotTheCache

\* TakeFramesWithHash, lines 99-128.  log is what the call has done so far,
\* each step with whether the thread held the lock when it did it.
Did(step, t) == [step |-> step, locked |-> mutex = t]

TakeFramesWithHashCall(t, hash) ==
  /\ Idle(t)
  /\ stacks' = Push(t, [fn |-> "TakeFramesWithHash", at |-> "lock",
                        locker |-> FALSE, hash |-> hash, times |-> <<>>,
                        emitted |-> 0, log |-> <<>>])
  /\ UNCHANGED <<time_hash_map_, timebase_, jobs_, validated_, mutex>>
  /\ UNCHANGED NotTheCache

\* Lines 105-115: the erase loop, under the lock.
TakeFramesWithHashLocked(t) ==
  /\ ~Idle(t)
  /\ Top(t).fn = "TakeFramesWithHash" /\ Top(t).at = "locked"
  /\ LET taken == TakeLoop(time_hash_map_, SortedKeys(DOMAIN time_hash_map_),
                           Top(t).hash, <<>>)
     IN  /\ time_hash_map_' = taken.map
         /\ stacks' = SetTop(t, [Top(t) EXCEPT !.at = "invalidate",
                                               !.times = taken.times,
                                               !.log = Append(@, Did("erase", t))])
  /\ UNCHANGED <<timebase_, jobs_, validated_, mutex>>
  /\ UNCHANGED NotTheCache

\* Lines 117-119: NoLockInvalidate for each time that was taken.
TakeFramesWithHashInvalidate(t) ==
  /\ ~Idle(t)
  /\ Top(t).fn = "TakeFramesWithHash" /\ Top(t).at = "invalidate"
  /\ validated_' = InvalidateEach(validated_, Top(t).times, timebase_)
  /\ stacks' = SetTop(t, [Top(t) EXCEPT !.at = "unlock",
                                        !.log = Append(@, Did("invalidate", t))])
  /\ UNCHANGED <<time_hash_map_, timebase_, jobs_, mutex>>
  /\ UNCHANGED NotTheCache

\* Line 121: locker.unlock().
TakeFramesWithHashUnlock(t) ==
  /\ ~Idle(t)
  /\ Top(t).fn = "TakeFramesWithHash" /\ Top(t).at = "unlock"
  /\ mutex' = LockerUnlock(mutex, t)
  /\ stacks' = SetTop(t, [Top(t) EXCEPT !.at = "emit",
                                        !.locker = (mutex' = t),
                                        !.log = Append(@, Did("unlock", t))])
  /\ UNCHANGED <<time_hash_map_, timebase_, jobs_, validated_>>
  /\ UNCHANGED NotTheCache

\* Variant: the loop over times stops one short.
MoreToEmitButLast(frame) == frame.emitted < Len(frame.times) - 1

\* The foreach of line 123 has a time left.
MoreToEmit(frame) == frame.emitted < Len(frame.times)

\* Lines 123-127: emit Invalidated for the next time, the slot making its
\* call, or return times when there is none left.
TakeFramesWithHashEmit(t) ==
  /\ ~Idle(t)
  /\ Top(t).fn = "TakeFramesWithHash" /\ Top(t).at = "emit"
  /\ IF MoreToEmit(Top(t))
     THEN LET r == Top(t).times[Top(t).emitted + 1]
              range == TimeRange(r, r + timebase_)
          IN  /\ \E call \in SlotCalls(range) :
                   stacks' = [stacks EXCEPT ![t] =
                                Append([@ EXCEPT ![Len(@)] =
                                          [Top(t) EXCEPT !.emitted = @ + 1,
                                                         !.log = Append(@, Did("emit", t))]],
                                       call)]
              /\ UNCHANGED mutex
     ELSE /\ mutex' = LockerDestroyed(mutex, Top(t))
          /\ stacks' = Return(t)
  /\ UNCHANGED <<time_hash_map_, timebase_, jobs_, validated_>>
  /\ UNCHANGED NotTheCache

\* LengthChangedEvent, lines 208-221: no lock is taken.
LengthChangedEventCall(t, old, newlen) ==
  /\ Idle(t)
  /\ time_hash_map_' = LengthChanged(time_hash_map_, old, newlen)
  /\ UNCHANGED <<timebase_, jobs_, validated_>>
  /\ UNCHANGED threads
  /\ UNCHANGED NotTheCache

\* InvalidateEvent, lines 223-234: no lock is taken.
InvalidateEventCall(t, r) ==
  /\ Idle(t)
  /\ time_hash_map_' = Invalidate(time_hash_map_, r)
  /\ UNCHANGED <<timebase_, jobs_, validated_>>
  /\ UNCHANGED threads
  /\ UNCHANGED NotTheCache

\* ShiftEvent, lines 243-270: the scan that erases and collects; no lock is
\* taken.
ShiftEventCall(t, from, to) ==
  /\ Idle(t)
  /\ LET scanned == ShiftLoop(time_hash_map_, SortedKeys(DOMAIN time_hash_map_),
                              from, to, <<>>)
     IN  /\ time_hash_map_' = scanned.map
         /\ stacks' = Push(t, [fn |-> "ShiftEvent", at |-> "insert", locker |-> FALSE,
                               from |-> from, to |-> to,
                               shifted_times |-> scanned.shifted_times])
  /\ UNCHANGED <<timebase_, jobs_, validated_, mutex>>
  /\ UNCHANGED NotTheCache

\* ShiftEvent, lines 272-275: the collected entries are inserted.
ShiftEventInsert(t) ==
  /\ ~Idle(t)
  /\ Top(t).fn = "ShiftEvent" /\ Top(t).at = "insert"
  /\ time_hash_map_' = ShiftInsert(time_hash_map_, Top(t).shifted_times)
  /\ stacks' = Return(t)
  /\ UNCHANGED <<timebase_, jobs_, validated_, mutex>>
  /\ UNCHANGED NotTheCache

\* TimeBasedCache::NoLockGetInvalidatedRanges(): the ranges of the timeline
\* [0, length) that are not valid, in ascending order.
RECURSIVE InvalidatedRangesFrom(_, _, _)
InvalidatedRangesFrom(v, c, length) ==
  IF c >= length THEN <<>>
  ELSE IF c \in v THEN InvalidatedRangesFrom(v, c + 1, length)
  ELSE LET stop == CHOOSE d \in (c + 1)..length :
                     /\ d = length \/ d \in v
                     /\ \A e \in (c + 1)..(d - 1) : e \notin v
       IN  <<TimeRange(c, stop)>> \o InvalidatedRangesFrom(v, stop, length)

NoLockGetInvalidatedRanges(v) == InvalidatedRangesFrom(v, 0, MaxTime + 1)

\* GetInvalidatedFrames, lines 184-189.
GetInvalidatedFramesCall(t) ==
  /\ Idle(t)
  /\ stacks' = Push(t, [fn |-> "GetInvalidatedFrames", at |-> "lock", locker |-> FALSE])
  /\ UNCHANGED <<time_hash_map_, timebase_, jobs_, validated_, mutex>>
  /\ UNCHANGED NotTheCache

GetFrameListFrame(range) ==
  [fn |-> "GetFrameListFromTimeRange", at |-> "lock", locker |-> FALSE, range |-> range]

\* Line 188, under the lock: the call of the member GetFrameListFromTimeRange
\* with the ranges that are not valid.
GetInvalidatedFramesLocked(t) ==
  /\ ~Idle(t)
  /\ Top(t).fn = "GetInvalidatedFrames" /\ Top(t).at = "locked"
  /\ stacks' = [stacks EXCEPT ![t] =
                  Append([@ EXCEPT ![Len(@)].at = "return"],
                         GetFrameListFrame(NoLockGetInvalidatedRanges(validated_)))]
  /\ UNCHANGED <<time_hash_map_, timebase_, jobs_, validated_, mutex>>
  /\ UNCHANGED NotTheCache

\* The member GetFrameListFromTimeRange(range), lines 177-182.
GetFrameListCall(t, range) ==
  /\ Idle(t)
  /\ stacks' = Push(t, GetFrameListFrame(range))
  /\ UNCHANGED <<time_hash_map_, timebase_, jobs_, validated_, mutex>>
  /\ UNCHANGED NotTheCache

\* What the loop of the static GetFrameListFromTimeRange (lines 156-174) can
\* return for a positive timebase.
RECURSIVE FrameLists(_, _, _)
FrameLists(range_list, tb, times) ==
  IF range_list = <<>> THEN {times}
  ELSE LET time == range_list[1].in
       IN  UNION {LET b == SnapBranch(time, snapped, tb)
                  IN  FrameLists(RemoveTimeRange(range_list, TimeRange(b.snapped, b.next)),
                                 tb, Append(times, b.snapped)) :
                  snapped \in snap_time_to_timebase(time, tb)}

\* Line 181, under the lock: the static function with timebase_.  With a
\* timebase that is not positive its loop does not end and the call stays
\* here.
GetFrameListLocked(t) ==
  /\ ~Idle(t)
  /\ Top(t).fn = "GetFrameListFromTimeRange" /\ Top(t).at = "locked"
  /\ timebase_ > 0
  /\ mutex' = LockerDestroyed(mutex, Top(t))
  /\ FrameLists(Top(t).range, timebase_, <<>>) # {}
  /\ stacks' = Return(t)
  /\ UNCHANGED <<time_hash_map_, timebase_, jobs_, validated_>>
  /\ UNCHANGED NotTheCache

\* ------------------------------------------------------------ the machine

\* A forward shift is taken only while no key moves past maxkey.
ShiftBounded(from, to, maxkey) ==
  \A k \in DOMAIN time_hash_map_ : (k >= from /\ to > from) => k + (to - from) <= maxkey

\* Nothing persisted, no call in progress, the lock free.
InitElsewhere ==
  /\ save = [pc |-> "idle"]
  /\ created_files = <<>>
  /\ disk = EmptyDisk
  /\ mutex = NoThread
  /\ stacks = [t \in Threads |-> <<>>]

\* The cache after construction: nothing cached, nothing valid, no job.
Init ==
  /\ time_hash_map_ = EmptyMap
  /\ timebase_ \in Timebases
  /\ jobs_ = <<>>
  /\ validated_ = {}
  /\ last = [op |-> "init"]
  /\ grid_range_list = <<>>
  /\ grid_times = <<>>
  /\ grid_timebase = timebase_
  /\ grid_pc = "idle"
  /\ grid_input = <<>>
  /\ InitElsewhere

Scheduler ==
  \/ \E r \in JobRanges, jt \in 1..MaxJobTime : AddJob(r, jt)
  \/ \E i \in 1..MaxJobTime : RemoveJob(i)

Record ==
  \/ \E t \in Times : GetHash(t)
  \/ \E t \in Times, h \in Hashes, jt \in JobTimes : SetHash(t, h, jt)

Next ==
  \/ Scheduler
  \/ Record
  \/ \E tb \in Timebases : SetTimebase(tb)
  \/ \E h \in Hashes : GetFramesWithHash(h)
  \/ \E h \in Hashes : TakeFramesWithHash(h)
  \/ \E old \in Lengths, newlen \in Lengths : LengthChangedEvent(old, newlen)
  \/ \E r \in EditRanges : InvalidateEvent(r)
  \/ \E from \in Lengths, to \in Lengths :
       ShiftBounded(from, to, MaxTime) /\ ShiftEvent(from, to)

\* Every operation of the cache, in any order.
Spec == Init /\ [][Next]_vars

\* The scheduler and the completions of its jobs.
NextRecord == Scheduler \/ Record

SpecRecord == Init /\ [][NextRecord]_vars

\* The index as completions left it: any entries, each one's sample valid.
InitEdit ==
  /\ time_hash_map_ \in EditMaps \cup ExampleMaps
  /\ timebase_ \in Timebases
  /\ jobs_ \in {<<>>, <<Job(TimeRange(0, MaxKey + 1), 1)>>}
  /\ validated_ = UNION {Cells(TimeRange(k, k + timebase_)) : k \in DOMAIN time_hash_map_}
  /\ last = [op |-> "init"]
  /\ grid_range_list = <<>>
  /\ grid_times = <<>>
  /\ grid_timebase = timebase_
  /\ grid_pc = "idle"
  /\ grid_input = <<>>
  /\ InitElsewhere

\* No operation was applied yet to the index that was drawn.
Drawn == last.op = "init"

\* One operation that reads, removes or moves entries, applied to the index
\* that was drawn.
NextEdit ==
  \/ \E h \in Hashes : Drawn /\ GetFramesWithHash(h)
  \/ \E h \in Hashes : Drawn /\ TakeFramesWithHash(h)
  \/ \E old \in EditPoints, newlen \in EditPoints :
       Drawn /\ LengthChangedEvent(old, newlen)
  \/ \E r \in EditPointRanges : Drawn /\ InvalidateEvent(r)
  \/ \E from \in EditPoints, to \in EditPoints : Drawn /\ ShiftEvent(from, to)

SpecEdit == InitEdit /\ [][NextEdit]_vars

\* The last call was an edit of the index that was drawn.
FirstEdit == last.op # "init" /\ last.before \in EditMaps \cup ExampleMaps

\* A timeline edit of the index that was drawn, and the same edit once more.
NextRepeat ==
  \/ \E old \in EditPoints, newlen \in EditPoints :
       /\ \/ Drawn
          \/ /\ FirstEdit /\ last.op = "LengthChangedEvent"
             /\ last.old = old /\ last.newlen = newlen
       /\ LengthChangedEvent(old, newlen)
  \/ \E r \in EditPointRanges :
       /\ \/ Drawn
          \/ FirstEdit /\ last.op = "InvalidateEvent" /\ last.r = r
       /\ InvalidateEvent(r)
  \/ \E from \in EditPoints, to \in EditPoints :
       /\ \/ Drawn
          \/ /\ FirstEdit /\ last.op = "ShiftEvent"
             /\ last.from = from /\ last.to = to
       /\ ShiftEvent(from, to)

SpecRepeat == InitEdit /\ [][NextRepeat]_vars

\* The sample grid: one expansion of a range list, with any timebase.
NextGrid ==
  \/ \E tb \in GridTimebases : grid_pc = "idle" /\ SetTimebase(tb)
  \/ \E list \in GridLists, tb \in GridTimebases : GetFrameListFromTimeRange(list, tb)
  \/ \E list \in GridLists : GetFrameListFromTimeRangeMember(list)
  \/ GridLoop
  \/ GridReturn

SpecGrid == Init /\ [][NextGrid]_vars

\* The disk persister: frames of any format, an encoder that may fail.
NextPersist ==
  \/ \E hash \in ByteArrays, format \in PixelFormats : SaveCacheFrame(hash, format)
  \/ SaveInteger
  \/ SaveFloat
  \/ SaveInvalid
  \/ SaveCacheFrameReturn

\* The index as completions left it, each entry's sample valid; the
\* scheduler has no job registered, or one for the whole timeline.
InitLock ==
  /\ time_hash_map_ \in UNION {[K -> Hashes] : K \in SUBSET Times}
  /\ timebase_ \in Timebases
  /\ jobs_ \in {<<>>, <<Job(TimeRange(0, MaxTime + 1), MaxJobTime)>>}
  /\ validated_ = UNION {Cells(TimeRange(k, k + timebase_)) : k \in DOMAIN time_hash_map_}
  /\ last = [op |-> "init"]
  /\ grid_range_list = <<>>
  /\ grid_times = <<>>
  /\ grid_timebase = timebase_
  /\ grid_pc = "idle"
  /\ grid_input = <<>>
  /\ InitElsewhere

\* The calls two threads make into one cache, step by step.
NextLock ==
  \/ \E t \in Threads : Lock(t)
  \/ \E t \in Threads : ReturnFromCall(t)
  \/ \E t \in Threads, time \in Times : GetHashCall(t, time)
  \/ \E t \in Threads : GetHashLocked(t)
  \/ \E t \in Threads, time \in Times, h \in Hashes :
       SetHashCall(t, time, h, MaxJobTime)
  \/ \E t \in Threads : SetHashLocked(t)
  \/ \E t \in Threads : SetHashEmit(t)
  \/ \E t \in Threads, h \in Hashes : TakeFramesWithHashCall(t, h)
  \/ \E t \in Threads : TakeFramesWithHashLocked(t)
  \/ \E t \in Threads : TakeFramesWithHashInvalidate(t)
  \/ \E t \in Threads : TakeFramesWithHashUnlock(t)
  \/ \E t \in Threads : TakeFramesWithHashEmit(t)
  \/ \E t \in Threads, old \in Lengths, newlen \in Lengths :
       LengthChangedEventCall(t, old, newlen)
  \/ \E t \in Threads, r \in EditRanges : InvalidateEventCall(t, r)
  \/ \E t \in Threads, from \in Lengths, to \in Lengths :
       ShiftBounded(from, to, MaxTime) /\ ShiftEventCall(t, from, to)
  \/ \E t \in Threads : ShiftEventInsert(t)
  \/ \E t \in Threads : GetInvalidatedFramesCall(t)
  \/ \E t \in Threads : GetInvalidatedFramesLocked(t)
  \/ \E t \in Threads : GetFrameListCall(t, <<TimeRange(0, MaxTime + 1)>>)
  \/ \E t \in Threads : GetFrameListLocked(t)

SpecLock == InitLock /\ [][NextLock]_vars

\* The registry and the disk as an earlier persist left them: nothing, or
\* one frame of a valid format, written and registered.
InitPersist ==
  /\ time_hash_map_ = EmptyMap
  /\ timebase_ \in Timebases
  /\ jobs_ = <<>>
  /\ validated_ = {}
  /\ last = [op |-> "init"]
  /\ grid_range_list = <<>>
  /\ grid_times = <<>>
  /\ grid_timebase = timebase_
  /\ grid_pc = "idle"
  /\ grid_input = <<>>
  /\ save = [pc |-> "idle"]
  /\ created_files \in
       {<<>>} \cup {<< <<CachePathName(h, f), h>> >> :
                      h \in ByteArrays, f \in IntegerFormats \cup FloatFormats}
  /\ disk = [dirs |-> {cache_dir(created_files[i][2]) : i \in 1..Len(created_files)},
             files |-> {File(created_files[i][1], TRUE) : i \in 1..Len(created_files)}]
  /\ mutex = NoThread
  /\ stacks = [t \in Threads |-> <<>>]

SpecPersist == InitPersist /\ [][NextPersist]_vars

\* ================================================================ claims

SeqRange(q) == {q[i] : i \in 1..Len(q)}
Min(a, b) == IF a < b THEN a ELSE b

\* ---- C1 (SpecRecord)
\* C1: when the ledger holds a job whose range contains t and whose sequence
\* is s, whatever else it holds, record(t, h, s) is accepted: the index maps
\* t to h afterwards, whatever it held at t before, and lookup(t) returns h.
C1_RecordOfCoveringJobAccepted ==
  (/\ last.op = "SetHash"
   /\ \E i \in 1..Len(jobs_) :
        Contains(jobs_[i].range, last.time) /\ jobs_[i].job_time = last.job_time)
  => /\ last.is_current
     /\ last.time \in DOMAIN time_hash_map_
     /\ time_hash_map_[last.time] = last.hash
     /\ MapValue(time_hash_map_, last.time) = last.hash

\* A completion of the older of two jobs that replaced another hash at t.
C1_Witness ==
  /\ last.op = "SetHash"
  /\ Len(jobs_) = 2
  /\ Contains(jobs_[1].range, last.time) /\ jobs_[1].job_time = last.job_time
  /\ last.time \in DOMAIN last.before
  /\ last.before[last.time] # last.hash
  /\ time_hash_map_[last.time] = last.hash

\* ---- C2 (SpecRecord)
\* C2: when no job of the ledger has a range containing t (the empty ledger
\* included), record(t, h, s) leaves the index and the validity ledger as
\* they were and emits no Validated signal, for every h and s.
C2_UncoveredRecordDiscarded ==
  (/\ last.op = "SetHash"
   /\ \A i \in 1..Len(jobs_) : ~Contains(jobs_[i].range, last.time))
  => /\ time_hash_map_ = last.before
     /\ validated_ = last.valid_before
     /\ last.emitted = <<>>

\* A completion for a time beside the only job, whose sequence it carries,
\* with an index and a ledger that had something to lose.
C2_Witness ==
  /\ last.op = "SetHash"
  /\ Len(jobs_) = 1
  /\ ~Contains(jobs_[1].range, last.time)
  /\ last.job_time >= jobs_[1].job_time
  /\ time_hash_map_ # EmptyMap
  /\ validated_ # {}
  /\ ~last.is_current

\* ---- C3 (SpecRecord)
\* C3: with two registered jobs whose ranges both contain t, once the
\* completion of the newer one (sequence s) was accepted for t, the completion
\* of the older one (sequence s' < s) that arrives next does not replace it:
\* lookup(t) still returns the hash of the newer render.
C3_StaleCompletionNeverReplaces ==
  [][(/\ last.op = "SetHash" /\ last.is_current
      /\ last'.op = "SetHash"
      /\ last'.time = last.time
      /\ last'.job_time < last.job_time
      /\ \E i \in 1..Len(jobs_), j \in 1..Len(jobs_) :
           /\ Contains(jobs_[i].range, last.time)
           /\ Contains(jobs_[j].range, last.time)
           /\ jobs_[i].job_time = last'.job_time
           /\ jobs_[j].job_time = last.job_time)
     => MapValue(time_hash_map_', last.time) = last.hash]_vars

\* ---- C4 (SpecRecord)
\* C4: record(t, h, s) is accepted if and only if some job of the ledger has
\* a range containing t and a sequence <= s, also when the newest job that
\* contains t has a sequence greater than s; an accepted record stores h at t
\* and a rejected one stores nothing.
C4_AcceptedIffSomeCoveringJobNotNewer ==
  last.op = "SetHash"
  => LET some == \E i \in 1..Len(jobs_) :
                   Contains(jobs_[i].range, last.time)
                   /\ jobs_[i].job_time <= last.job_time
     IN  /\ last.is_current <=> some
         /\ some => MapValue(time_hash_map_, last.time) = last.hash
         /\ ~some => time_hash_map_ = last.before

\* Accepted through the older job although the newer one also contains t and
\* has a greater sequence.
C4_Witness ==
  /\ last.op = "SetHash"
  /\ Len(jobs_) = 2
  /\ Contains(jobs_[2].range, last.time) /\ jobs_[2].job_time > last.job_time
  /\ Contains(jobs_[1].range, last.time) /\ jobs_[1].job_time <= last.job_time
  /\ last.is_current
  /\ time_hash_map_[last.time] = last.hash

\* ---- C5 (SpecEdit)
\* C5: take_by_hash(h) removes every entry whose value is h and no other
\* entry, returns the timestamps reverse_lookup(h) returns in the state
\* before, each once, and lookup of a returned timestamp then returns nothing.
C5_TakeByHash ==
  last.op = "TakeFramesWithHash"
  => LET before == last.before
         with_h == {k \in DOMAIN before : before[k] = last.hash}
     IN  /\ DOMAIN time_hash_map_ = (DOMAIN before) \ with_h
         /\ \A k \in DOMAIN time_hash_map_ : time_hash_map_[k] = before[k]
         /\ SeqRange(last.ret) = with_h
         /\ SeqRange(last.ret) = SeqRange(FramesWithHash(before, last.hash))
         /\ Len(last.ret) = Cardinality(with_h)
         /\ \A i \in 1..Len(last.ret) :
              MapValue(time_hash_map_, last.ret[i]) = EmptyHash

\* Two adjacent entries and a later one were taken, others were left.
C5_Witness ==
  /\ last.op = "TakeFramesWithHash"
  /\ Len(last.ret) >= 3
  /\ last.ret[2] = last.ret[1] + 1
  /\ time_hash_map_ # EmptyMap

\* ---- C6 (SpecEdit)
\* C6: Shift(from, to), diff = to - from: the entries of [to, from) are
\* deleted when diff < 0; every entry with key >= from is at key + diff with
\* its hash; every entry with key < min(from, to) is as it was; there is no
\* other entry, and the number of entries is the number before minus the
\* number deleted from [to, from).  Shift(5, 2) on keys {1,2,5,6,7} gives
\* keys {1,2,3,4}, with 1 as it was and 2,3,4 holding the hashes of 5,6,7.
C6_Shift ==
  last.op = "ShiftEvent"
  => LET before == last.before
         from == last.from
         to == last.to
         diff == to - from
         deleted == {k \in DOMAIN before : diff < 0 /\ to <= k /\ k < from}
         moved == {k \in DOMAIN before : k >= from}
         kept == {k \in DOMAIN before : k < Min(from, to)}
     IN  /\ \A k \in moved :
              k + diff \in DOMAIN time_hash_map_ /\ time_hash_map_[k + diff] = before[k]
         /\ \A k \in kept :
              k \in DOMAIN time_hash_map_ /\ time_hash_map_[k] = before[k]
         /\ DOMAIN time_hash_map_ = kept \cup {k + diff : k \in moved}
         /\ Cardinality(DOMAIN time_hash_map_)
              = Cardinality(DOMAIN before) - Cardinality(deleted)
         /\ (from = 5 /\ to = 2 /\ DOMAIN before = {1, 2, 5, 6, 7})
            => /\ DOMAIN time_hash_map_ = {1, 2, 3, 4}
               /\ time_hash_map_[1] = before[1]
               /\ time_hash_map_[2] = before[5]
               /\ time_hash_map_[3] = before[6]
               /\ time_hash_map_[4] = before[7]

\* Shift(5, 2) on keys {1,2,5,6,7}, where the entry deleted at 2 held another
\* hash than the one that moved there.
C6_Witness ==
  /\ last.op = "ShiftEvent"
  /\ last.from = 5 /\ last.to = 2
  /\ DOMAIN last.before = {1, 2, 5, 6, 7}
  /\ last.before[2] # last.before[5]
  /\ DOMAIN time_hash_map_ = {1, 2, 3, 4}

\* ---- C7 (SpecEdit)
\* C7: Truncate(old, new): when new < old exactly the entries with key >= new
\* are removed and the others keep their hash; otherwise the index is as it
\* was.
C7_Truncate ==
  last.op = "LengthChangedEvent"
  => LET before == last.before
     IN  IF last.newlen < last.old
         THEN /\ DOMAIN time_hash_map_ = {k \in DOMAIN before : k < last.newlen}
              /\ \A k \in DOMAIN time_hash_map_ : time_hash_map_[k] = before[k]
         ELSE time_hash_map_ = before

\* A truncation at a key of the index, with entries on both sides.
C7_Witness ==
  /\ last.op = "LengthChangedEvent"
  /\ last.newlen < last.old
  /\ last.newlen \in DOMAIN last.before
  /\ time_hash_map_ # EmptyMap
  /\ Cardinality(DOMAIN last.before) >= Cardinality(DOMAIN time_hash_map_) + 2

\* ---- C8 (SpecEdit)
\* C8: Invalidate(range) removes exactly the entries with range.in <= key <
\* range.out, leaves the other entries as they were, leaves the validity
\* ledger and the job ledger as they were and emits no signal.
C8_Invalidate ==
  [][last'.op = "InvalidateEvent"
     => /\ DOMAIN time_hash_map_' =
             {k \in DOMAIN time_hash_map_ : ~(last'.r.in <= k /\ k < last'.r.out)}
        /\ \A k \in DOMAIN time_hash_map_' : time_hash_map_'[k] = time_hash_map_[k]
        /\ validated_' = validated_
        /\ jobs_' = jobs_
        /\ last'.emitted = <<>>]_vars

\* An invalidation that removed entries, among them none at range.out, which
\* is a key, while a job was registered and samples were valid.
C8_Witness ==
  /\ last.op = "InvalidateEvent"
  /\ last.r.out \in DOMAIN last.before
  /\ last.r.out \in DOMAIN time_hash_map_
  /\ last.r.in \in DOMAIN last.before
  /\ DOMAIN time_hash_map_ # DOMAIN last.before
  /\ jobs_ # <<>>
  /\ validated_ # {}

\* ---- C9 (SpecGrid)
\* The grid instants of a positive timebase whose sample [g, g + tb) overlaps
\* a range of the list.
GridSamples(list, tb) ==
  {g \in 0..MaxGridTime :
     /\ g % tb = 0
     /\ \E i \in 1..Len(list) : g < list[i].out /\ g + tb > list[i].in}

RangesAscending(list) == \A i \in 1..(Len(list) - 1) : list[i].out <= list[i + 1].in

\* The ticks the ranges of a list of disjoint ranges cover.
RangesLength(list) == Cardinality(UNION {Cells(list[i]) : i \in 1..Len(list)})

\* What a finished expansion with a positive timebase has returned.
GridResultExact ==
  (grid_pc = "done" /\ grid_timebase > 0)
  => LET samples == GridSamples(grid_input, grid_timebase)
     IN  /\ SeqRange(grid_times) = samples
         /\ Len(grid_times) = Cardinality(samples)
         /\ RangesAscending(grid_input)
            => \A i \in 1..(Len(grid_times) - 1) : grid_times[i] < grid_times[i + 1]
         /\ (grid_input = <<TimeRange(0, 3)>> /\ grid_timebase = 1)
            => grid_times = <<0, 1, 2>>

\* With a positive timebase no expansion is cut short by MaxSamples.
GridNeverCut ==
  (grid_pc = "loop" /\ grid_timebase > 0 /\ grid_range_list # <<>>)
  => Len(grid_times) < MaxSamples

\* A pass of the loop with a positive timebase leaves less to expand.
GridPassShrinks ==
  (/\ grid_pc = "loop" /\ grid_pc' = "loop"
   /\ grid_timebase > 0
   /\ grid_times' # grid_times)
  => RangesLength(grid_range_list') < RangesLength(grid_range_list)

\* C9: for a list of disjoint ranges and a timebase > 0, expand terminates
\* (every pass of its loop shortens the ranges left) and returns exactly the
\* grid instants g whose sample [g, g + timebase) overlaps a range of the
\* list, each once, ascending when the list is; expand([0,3), 1) is 0, 1, 2.
C9_Expand == [](GridResultExact /\ GridNeverCut) /\ [][GridPassShrinks]_vars

\* Two ranges off the grid of timebase 3, in descending order: the start of
\* one snaps down and that of the other snaps up, and each gives the sample
\* that contains it.
C9_Witness ==
  /\ grid_pc = "done"
  /\ grid_timebase = 3
  /\ grid_input = <<TimeRange(4, 5), TimeRange(2, 3)>>
  /\ grid_times = <<3, 0>>

\* ---- C10 (SpecGrid)
\* C10: an expansion called with a timebase <= 0 fails fast: it appends no
\* sample and does not stand at its loop with ranges left to expand.
C10_NonPositiveTimebaseFailsFast ==
  (grid_pc # "idle" /\ grid_timebase <= 0)
  => /\ grid_times = <<>>
     /\ grid_pc = "loop" => grid_range_list = <<>>

\* ---- C13 (SpecPersist)
\* What the persist call that has ended added to the registry.
RegisteredByCall ==
  SubSeq(created_files, save.registered_before + 1, Len(created_files))

\* C13: persist reports (cache_path(hash, format), hash) to the registry
\* exactly once when the frame was written and not at all otherwise; for
\* PIX_FMT_INVALID and PIX_FMT_COUNT the write reports failure and nothing
\* is registered.
C13_RegisteredIffWritten ==
  save.pc = "done"
  => /\ save.written
        => RegisteredByCall = << <<CachePathName(save.hash, save.format), save.hash>> >>
     /\ ~save.written => RegisteredByCall = <<>>
     /\ save.format \in InvalidFormats => (~save.ret /\ RegisteredByCall = <<>>)

\* ---- C14 (SpecPersist)
\* C14: for an integer format, when the encoder cannot be created or cannot
\* be opened on the file, persist reports failure and registers nothing.
C14_EncoderFailureNotRegistered ==
  (/\ save.pc = "done"
   /\ save.format \in IntegerFormats
   /\ ~save.created \/ ~save.opened)
  => (~save.ret /\ RegisteredByCall = <<>>)

\* ---- C15 (SpecPersist)
\* The extension of a pixel-format class.
ClassExtension(is_float) ==
  IF is_float THEN <<".", "e", "x", "r">> ELSE <<".", "j", "p", "g">>

\* C15: the path of a call is <cache_root>/<hex of the first hash byte>/<hex
\* of the other bytes><ext>, ext being that of the format's class; another
\* hash or a format of the other class gives another path and the same hash
\* with a format of the same class gives the same path; two registered
\* files have the same path only if they have the same hash.
C15_CachePath ==
  /\ save.pc # "idle"
     => /\ save.fn = GetMediaCacheLocation \o <<"/">> \o toHex(<<save.hash[1]>>)
                       \o <<"/">> \o toHex(Tail(save.hash))
                       \o ClassExtension(save.format \in FloatFormats)
        /\ \A h \in ByteArrays, f \in PixelFormats :
             (CachePathName(h, f) = save.fn)
             <=> (h = save.hash /\ (f \in FloatFormats) = (save.format \in FloatFormats))
  /\ \A i \in 1..Len(created_files), j \in 1..Len(created_files) :
       created_files[i][1] = created_files[j][1]
       => created_files[i][2] = created_files[j][2]

\* Two files are registered whose hashes have the same bytes in another
\* order, one of a float format and one of an integer format.
C15_Witness ==
  /\ save.pc = "done"
  /\ Len(created_files) = 2
  /\ created_files[1][2] = <<1, 16>>
  /\ created_files[2][2] = <<16, 1>>
  /\ save.format \in FloatFormats
  /\ created_files[1][1][Len(created_files[1][1])] = "g"

\* ---- C16 (Spec)
\* C16: after any sequence of record, take_by_hash, Truncate, Invalidate,
\* Shift and SetTimebase calls, every key k of the index has its sample
\* interval [k, k + timebase) marked valid in the validity ledger.
C16_KeysAreValid ==
  \A k \in DOMAIN time_hash_map_ :
    Cells(TimeRange(k, k + timebase_)) \subseteq validated_

\* ---- C17 (Spec)
\* C17: after any sequence of record, Shift, Truncate, Invalidate,
\* take_by_hash and SetTimebase calls, every key of the index is an integer
\* multiple of the current timebase.
C17_KeysOnGrid ==
  \A k \in DOMAIN time_hash_map_ : k % timebase_ = 0

\* ---- C19 (SpecRepeat)
\* The step is a call of the edit op with the arguments of the call before it.
SameTruncateAgain ==
  /\ last.op = "LengthChangedEvent" /\ last'.op = "LengthChangedEvent"
  /\ last'.old = last.old /\ last'.newlen = last.newlen
SameInvalidateAgain ==
  /\ last.op = "InvalidateEvent" /\ last'.op = "InvalidateEvent"
  /\ last'.r = last.r
SameShiftAgain ==
  /\ last.op = "ShiftEvent" /\ last'.op = "ShiftEvent"
  /\ last'.from = last.from /\ last'.to = last.to

\* C19 as stated: Truncate(old, new), Invalidate(range) and Shift(from, to)
\* applied a second time with the same arguments leave the index as the
\* first application left it.
C19_EditsIdempotent ==
  [][(SameTruncateAgain \/ SameInvalidateAgain \/ SameShiftAgain)
     => time_hash_map_' = time_hash_map_]_vars

\* C19 amended: Truncate and Invalidate applied a second time with the same
\* arguments leave the index as the first application left it; Shift(from,
\* to) does so exactly when to = from or the index it was first applied to
\* had no key >= from.
C19_EditsIdempotentButShift ==
  [][/\ SameTruncateAgain => time_hash_map_' = time_hash_map_
     /\ SameInvalidateAgain => time_hash_map_' = time_hash_map_
     /\ SameShiftAgain
        => ((time_hash_map_' = time_hash_map_)
            <=> (\/ last.to = last.from
                 \/ \A k \in DOMAIN last.before : k < last.from))]_vars

\* Invalidate([0,2)) was applied twice to an index with keys {1,2,5,6,7}:
\* the second application found keys {2,5,6,7} and left them.
C19_Witness ==
  /\ last.op = "InvalidateEvent"
  /\ last.r = TimeRange(0, 2)
  /\ DOMAIN last.before = {2, 5, 6, 7}
  /\ time_hash_map_ = last.before

\* ---- C11 (SpecLock)
\* C11: a call of invalidated_samples() never comes to acquire the lock of
\* the cache while that same call holds it (where it would wait for ever and
\* neither complete nor return anything).
C11_InvalidatedFramesNeverRelocks ==
  \A t \in Threads :
    (/\ Len(stacks[t]) >= 2
     /\ Top(t).fn = "GetFrameListFromTimeRange"
     /\ stacks[t][Len(stacks[t]) - 1].fn = "GetInvalidatedFrames")
    => ~(Top(t).at = "lock" /\ stacks[t][Len(stacks[t]) - 1].locker /\ mutex = t)

\* ---- C12 (SpecLock)
\* The thread is in SetHash or TakeFramesWithHash, at or after its emit.
Emitting(t) ==
  /\ ~Idle(t)
  /\ stacks[t][1].fn \in {"SetHash", "TakeFramesWithHash"}
  /\ stacks[t][1].at \in {"emit", "return"}

\* C12: record and take_by_hash do not hold the lock when they emit, and a
\* locking call an observer makes from the slot is never left waiting for a
\* lock its own thread holds.
C12_SlotCallsNeverSelfBlocked ==
  \A t \in Threads :
    Emitting(t)
    => /\ ~stacks[t][1].locker
       /\ (Len(stacks[t]) >= 2 /\ Top(t).at = "lock") => mutex # t

\* ---- C18 (SpecLock)
\* The thread is in the middle of a read-modify-write of the index.
Mutating(t) ==
  /\ ~Idle(t)
  /\ \/ Top(t).fn \in {"SetHash", "TakeFramesWithHash"} /\ Top(t).at = "locked"
     \/ Top(t).fn = "ShiftEvent" /\ Top(t).at = "insert"

\* C18: a thread in the middle of a read-modify-write of the index, a
\* timeline edit included, holds the lock, so that no other thread is in a
\* critical section of the cache meanwhile.
C18_IndexChangesUnderLock ==
  \A t \in Threads : Mutating(t) => mutex = t

\* ---- C20 (SpecLock)
\* The frames of TakeFramesWithHash in progress.
TakeFrames == {stacks[t][1] : t \in {u \in Threads : ~Idle(u) /\ stacks[u][1].fn = "TakeFramesWithHash"}}

\* The positions of a step in a log.
StepsAt(log, step) == {i \in 1..Len(log) : log[i].step = step}

\* This step is the return of thread t's TakeFramesWithHash.
TakeReturns(t) ==
  /\ ~Idle(t)
  /\ stacks[t][1].fn = "TakeFramesWithHash"
  /\ stacks'[t] = <<>>

\* A call that returns has emitted one notification per removed entry.
TakeEmitsOnePerEntry ==
  \A t \in Threads :
    TakeReturns(t)
    => Cardinality(StepsAt(stacks[t][1].log, "emit")) = Len(stacks[t][1].times)

\* C20 as stated: the entries are removed under the lock, the lock is
\* released, and only then are the ledger invalidated and the notifications
\* emitted: no invalidation and no notification before the removal or while
\* the lock is held, and n notifications for n removed entries.
C20_TakeInvalidatesAfterUnlock ==
  /\ [](\A f \in TakeFrames :
          /\ \A i \in StepsAt(f.log, "erase") : f.log[i].locked
          /\ \A i \in StepsAt(f.log, "invalidate") \cup StepsAt(f.log, "emit") :
               /\ ~f.log[i].locked
               /\ \E j \in StepsAt(f.log, "erase") : j < i
               /\ \E j \in StepsAt(f.log, "unlock") : j < i)
  /\ [][TakeEmitsOnePerEntry]_vars

\* C20 amended: the entries are removed and then their intervals invalidated
\* in the ledger, both under the lock; the lock is released; only then is
\* one notification emitted per removed entry, none while the lock is held,
\* and a call that removed n entries has emitted n notifications when it
\* returns.
C20_TakeInvalidatesUnderLock ==
  /\ [](\A f \in TakeFrames :
          \A i \in 1..Len(f.log) :
            /\ i = 1 => f.log[i] = [step |-> "erase", locked |-> TRUE]
            /\ i = 2 => f.log[i] = [step |-> "invalidate", locked |-> TRUE]
            /\ i = 3 => f.log[i] = [step |-> "unlock", locked |-> TRUE]
            /\ i > 3 => f.log[i] = [step |-> "emit", locked |-> FALSE]
            /\ i <= 3 + Len(f.times))
  /\ [][TakeEmitsOnePerEntry]_vars

\* A call that removed two entries has emitted its two notifications and
\* their slots have returned, while the other thread holds the lock.
C20_Witness ==
  \E t \in Threads :
    /\ Len(stacks[t]) = 1
    /\ Top(t).fn = "TakeFramesWithHash"
    /\ Len(Top(t).times) = 2
    /\ Top(t).emitted = 2
    /\ Len(Top(t).log) = 5
    /\ mutex \notin {t, NoThread}

====
